---------------------------- MODULE Spec2Model ----------------------------
(***************************************************************************)
(* A model of src/main.py: the YouTube description enhancer.               *)
(*                                                                         *)
(* Text is modelled as a sequence of one-character strings, so that the    *)
(* string operations of the program (split, strip, replace, join, the      *)
(* substring test) are computed the way Python computes them.              *)
(*                                                                         *)
(* Each function of the program has its own specification (SpecList,       *)
(* SpecDetails, ...): Init draws the function's inputs and the platform's  *)
(* answers from bounded sets, and the actions are the steps of its code.   *)
(***************************************************************************)
EXTENDS Integers, Sequences, FiniteSets, TLC

VARIABLES
    pc,             \* position of the function being executed
    \* ---- get_video_list
    lst_pages,      \* the platform's pages of the upload playlist
    video_list,     \* video_list
    request,        \* pageToken of the request about to be executed
    next_page,      \* next_page
    lst_requests,   \* pageTokens of the list requests executed so far
    \* ---- get_video_details
    yt_videos,      \* the platform's video resources, by video id
    det_video_list, \* the argument video_list
    det_i,          \* loop variable i
    stats_list,     \* stats_list
    det_requests,   \* the id= argument of the detail requests executed so far
    \* ---- clean_and_fix_tags
    tg_input,       \* the argument tags (a string)
    tags,           \* tags (the list) after line 267
    tg_result,      \* the returned string
    tg_call,        \* 1: the call on the drawn input, 2: the call on its result
    \* ---- generate_ai_response
    prompt,         \* the argument prompt
    ai_i,           \* iterations of the for loop completed
    ai_outcomes,    \* outcome of each chat-completion request issued so far
    ai_sleeps,      \* the time.sleep durations so far
    ai_result,      \* the returned string
    \* ---- extract_data under @retry(tries=3, delay=2)
    channels,       \* the argument channels, in iteration order
    ex_tries,       \* the retry wrapper's remaining tries
    ex_calls,       \* calls of extract_data the wrapper has made
    ex_sleeps,      \* the wrapper's time.sleep durations so far
    ex_ch,          \* number of channels the for loop has completed
    ex_fetched,     \* video_data fetched for each channel in the current call
    df_videos_final, \* df_videos_final
    ex_result,      \* the returned table
    \* ---- update_youtube_videos
    df,             \* the argument df, a sequence of rows
    upd_i,          \* rows the for loop has completed
    failed_rows,    \* failed_rows
    upd_calls,      \* the update calls executed so far
    upd_updated,    \* rows reported "Updated video"
    upd_sleeps,     \* the time.sleep durations so far, in milliseconds
    upd_result,     \* the returned table
    \* ---- the main flow, lines 272-293
    run,            \* the run of the script: 1, 2, ...
    m_pc,           \* position of the main flow
    m_extracted,    \* df as extract_data returned it, line 280
    m_df,           \* df from line 281 on
    m_i,            \* rows the running df.apply has completed
    m_col,          \* the values the running df.apply has computed
    gen_log,        \* the calls of generate_ai_response of this run
    m_export,       \* whether youtube_failed_videos.xlsx was written
    prev_updated,   \* ids of the videos updated in the previous run
    \* ---- calculate_minutes
    cm_x,           \* the argument x
    cm_hours,       \* hours
    cm_minutes,     \* minutes
    cm_result,      \* the returned number
    \* ---- the metrics of extract_data, lines 194-196
    met_published,  \* published, in hours on the clock of pd.Timestamp.now()
    met_now,        \* pd.Timestamp.now(), in hours
    met_views,      \* view_count
    met_days,       \* days_from_publish
    met_vpd         \* views_per_lifetime_days

listVars == <<lst_pages, video_list, request, next_page, lst_requests>>
detVars  == <<yt_videos, det_video_list, det_i, stats_list, det_requests>>
tagVars  == <<tg_input, tags, tg_result, tg_call>>
aiVars   == <<prompt, ai_i, ai_outcomes, ai_sleeps, ai_result>>
exVars   == <<channels, ex_tries, ex_calls, ex_sleeps, ex_ch, ex_fetched,
              df_videos_final, ex_result>>
updVars  == <<df, upd_i, failed_rows, upd_calls, upd_updated, upd_sleeps,
              upd_result>>
mainVars == <<run, m_pc, m_extracted, m_df, m_i, m_col, gen_log, m_export,
              prev_updated>>
calcVars == <<cm_x, cm_hours, cm_minutes, cm_result>>
metVars  == <<met_published, met_now, met_views, met_days, met_vpd>>
pureVars == <<calcVars, metVars>>
vars     == <<pc, listVars, detVars, tagVars, aiVars, exVars, updVars,
              mainVars, pureVars>>

-----------------------------------------------------------------------------
(* Bounds of the model *)

MaxPages == 3
MaxItems == 3
MaxVideoId == 2
MaxDetailIds == 120
MaxSmallTags == 2
MaxBulkTags == 17
MaxChannels == 2
MaxRows == 3
MaxVideos == 2
MaxRuns == 2

-----------------------------------------------------------------------------
(* Generic helpers *)

Min(a, b) == IF a < b THEN a ELSE b

Range(s) == {s[i] : i \in 1..Len(s)}

SeqsUpTo(S, n) == UNION {[1..k -> S] : k \in 0..n}

RECURSIVE Concat(_)
Concat(seqs) == IF seqs = <<>> THEN <<>> ELSE Head(seqs) \o Concat(Tail(seqs))

\* The elements of s at the positions idx, in order
Pick(s, idx) ==
    [k \in 1..Cardinality(idx) |->
       s[CHOOSE i \in idx : Cardinality({j \in idx : j < i}) = k - 1]]

\* The elements of s in order, each kept at its first occurrence only
FirstOccurrences(s) ==
    LET keep == {i \in 1..Len(s) : \A j \in 1..(i - 1) : s[j] # s[i]}
    IN [k \in 1..Cardinality(keep) |->
          s[CHOOSE i \in keep : Cardinality({j \in keep : j < i}) = k - 1]]

-----------------------------------------------------------------------------
(* Text: a string is a sequence of one-character strings *)

Rep(c, n) == [i \in 1..n |-> c]

Whitespace == {" ", "\t", "\n", "\r"}

\* str.strip(chars): the leading and the trailing characters of the set
\* are removed
StripChars(s, chars) ==
    LET n == Len(s)
        lead == CHOOSE k \in 0..n :
                    /\ \A j \in 1..k : s[j] \in chars
                    /\ k = n \/ s[k + 1] \notin chars
        trail == CHOOSE k \in 0..n :
                    /\ \A j \in 1..k : s[n + 1 - j] \in chars
                    /\ k = n \/ s[n - k] \notin chars
    IN IF lead = n THEN <<>> ELSE SubSeq(s, lead + 1, n - trail)

\* str.strip()
Strip(s) == StripChars(s, Whitespace)

\* str.replace(c, "")
Remove(s, c) == SelectSeq(s, LAMBDA x : x # c)

\* The positions at which sep occurs in s
Occurrences(s, sep) ==
    {i \in 1..(Len(s) - Len(sep) + 1) :
        \A k \in 1..Len(sep) : s[i + k - 1] = sep[k]}

\* sub in s
Contains(s, sub) == Occurrences(s, sub) # {}

\* str.split(sep): the pieces between the occurrences of sep, found from the
\* left without overlap; always at least one piece.
RECURSIVE SplitFrom(_, _, _, _)
SplitFrom(s, sepLen, occ, start) ==
    LET next == {i \in occ : i >= start}
    IN IF next = {} THEN <<SubSeq(s, start, Len(s))>>
       ELSE LET p == CHOOSE i \in next : \A j \in next : i <= j
            IN <<SubSeq(s, start, p - 1)>> \o SplitFrom(s, sepLen, occ, p + sepLen)

Split(s, sep) == SplitFrom(s, Len(sep), Occurrences(s, sep), 1)

\* sep.join(list)
RECURSIVE Join(_, _)
Join(sep, list) ==
    IF list = <<>> THEN <<>>
    ELSE IF Len(list) = 1 THEN list[1]
    ELSE list[1] \o sep \o Join(sep, Tail(list))

Comma == <<",">>
CommaSpace == <<",", " ">>

-----------------------------------------------------------------------------
(* get_video_list, src/main.py:63-92 *)

NoToken == 0

\* The pages a playlist of k pages is served as: page i carries the token of
\* page i+1, the last page carries none.
PlaylistPages(k, items) ==
    [i \in 1..k |-> [items |-> items[i],
                     nextPageToken |-> IF i < k THEN i + 1 ELSE NoToken]]

\* The playlist items cut into Len(cuts) + 1 pages: page i ends after item
\* cuts[i], the last page after the last item. A page may be empty.
PagesOf(items, cuts) ==
    LET k == Len(cuts) + 1
        end(i) == IF i = 0 THEN 0 ELSE IF i = k THEN Len(items) ELSE cuts[i]
    IN PlaylistPages(k, [i \in 1..k |-> SubSeq(items, end(i - 1) + 1, end(i))])

\* The ways to cut n items into at most MaxPages pages
Cuts(n) ==
    {c \in SeqsUpTo(0..n, MaxPages - 1) :
        \A i \in 1..(Len(c) - 1) : c[i] <= c[i + 1]}

\* The playlists of at most MaxItems items served in at most MaxPages pages
Playlists ==
    UNION {{PagesOf(items, cuts) : cuts \in Cuts(Len(items))} :
             items \in SeqsUpTo(1..MaxVideoId, MaxItems)}

\* request.execute() of playlistItems().list: the first request has no
\* pageToken and is answered with page 1, a request with token t with page t.
PlaylistItemsList(pages, pageToken) ==
    IF pageToken = NoToken THEN pages[1] ELSE pages[pageToken]

AppendNewBuggy(list, video_id) == Append(list, video_id)

\* lines 77-78
AppendNew(list, video_id) ==
    IF video_id \in Range(list) THEN list ELSE Append(list, video_id)

\* lines 75-78
RECURSIVE AppendItems(_, _)
AppendItems(list, data) ==
    IF data = <<>> THEN list
    ELSE AppendItems(AppendNew(list, Head(data)), Tail(data))

HasNextPageTokenBuggy(response) ==
    response.nextPageToken # NoToken /\ response.items # <<>>

\* line 81
HasNextPageToken(response) == response.nextPageToken # NoToken

ListIdle ==
    /\ lst_pages = <<>>
    /\ video_list = <<>>
    /\ request = NoToken
    /\ next_page = FALSE
    /\ lst_requests = <<>>

\* lines 64-70
ListInit ==
    /\ lst_pages \in Playlists
    /\ video_list = <<>>
    /\ request = NoToken
    /\ next_page = TRUE
    /\ lst_requests = <<>>

\* one iteration of the while loop, lines 71-90
ListExecute ==
    /\ pc = "list_loop"
    /\ next_page
    /\ LET response == PlaylistItemsList(lst_pages, request)
           data == response.items
       IN /\ video_list' = AppendItems(video_list, data)
          /\ lst_requests' = Append(lst_requests, request)
          /\ IF HasNextPageToken(response)
             THEN /\ next_page' = TRUE
                  /\ request' = response.nextPageToken
             ELSE /\ next_page' = FALSE
                  /\ request' = request
    /\ UNCHANGED <<pc, lst_pages, detVars, tagVars, aiVars, exVars, updVars, mainVars>>
    /\ UNCHANGED pureVars

\* line 92
ListReturn ==
    /\ pc = "list_loop"
    /\ ~next_page
    /\ pc' = "list_returned"
    /\ UNCHANGED <<listVars, detVars, tagVars, aiVars, exVars, updVars, mainVars>>
    /\ UNCHANGED pureVars

\* get_video_list as a function of the playlist's pages
RECURSIVE ListLoop(_, _, _)
ListLoop(pages, pageToken, list) ==
    LET response == PlaylistItemsList(pages, pageToken)
        list2 == AppendItems(list, response.items)
    IN IF HasNextPageToken(response)
       THEN ListLoop(pages, response.nextPageToken, list2)
       ELSE list2

GetVideoList(pages) == ListLoop(pages, NoToken, <<>>)

-----------------------------------------------------------------------------
(* get_video_details, src/main.py:98-139 *)

ChunkSize == 50

\* A video resource of the platform as videos().list returns it
VideoResource(id, title, description, categoryId) ==
    [id |-> id, title |-> title, description |-> description,
     categoryId |-> categoryId]

\* 'https://www.youtube.com/watch?v={0}'.format(video['id']), line 120
VideoUrl(id) == <<"https://www.youtube.com/watch?", "v=", ToString(id)>>

\* lines 110-136: the flat record of one video
StatsDict(video) ==
    [title |-> video.title, description |-> video.description,
     video_url |-> VideoUrl(video.id), categoryId |-> video.categoryId]

ChunkBuggy(list, i) == SubSeq(list, i + 1, Min(i + ChunkSize + 1, Len(list)))

\* video_list[i:i+50], line 105
Chunk(list, i) == SubSeq(list, i + 1, Min(i + ChunkSize, Len(list)))

\* request.execute() of videos().list: the resources of the requested ids
\* the platform still knows, in the order requested.
VideosList(videos, ids) ==
    LET known == SelectSeq(ids, LAMBDA id : id \in DOMAIN videos)
    IN [k \in 1..Len(known) |-> videos[known[k]]]

\* lines 109-137
AppendStats(list, items) ==
    list \o [k \in 1..Len(items) |-> StatsDict(items[k])]

DetailsIdle ==
    /\ yt_videos = <<>>
    /\ det_video_list = <<>>
    /\ det_i = 0
    /\ stats_list = <<>>
    /\ det_requests = <<>>

DroppedIds == {{}, {1}, {50, 51}, {1, 2, 3}}

DetailsInit ==
    /\ \E n \in 0..MaxDetailIds : det_video_list = [k \in 1..n |-> k]
    /\ \E dropped \in DroppedIds :
         yt_videos = [id \in (1..MaxDetailIds + 1) \ dropped |->
                        VideoResource(id, id, <<>>, 27)]
    /\ det_i = 0
    /\ stats_list = <<>>
    /\ det_requests = <<>>

\* one iteration of the for loop, lines 102-137
DetailsRequest ==
    /\ pc = "details_loop"
    /\ det_i < Len(det_video_list)
    /\ LET ids == Chunk(det_video_list, det_i)
           data == VideosList(yt_videos, ids)
       IN /\ det_requests' = Append(det_requests, ids)
          /\ stats_list' = AppendStats(stats_list, data)
    /\ det_i' = det_i + ChunkSize
    /\ UNCHANGED <<pc, yt_videos, det_video_list, listVars, tagVars, aiVars, exVars, updVars, mainVars>>
    /\ UNCHANGED pureVars

\* line 139
DetailsReturn ==
    /\ pc = "details_loop"
    /\ det_i >= Len(det_video_list)
    /\ pc' = "details_returned"
    /\ UNCHANGED <<detVars, listVars, tagVars, aiVars, exVars, updVars, mainVars>>
    /\ UNCHANGED pureVars

\* get_video_details as a function of its argument and the platform's videos
RECURSIVE DetailsLoop(_, _, _, _)
DetailsLoop(videos, list, i, stats) ==
    IF i >= Len(list) THEN stats
    ELSE DetailsLoop(videos, list, i + ChunkSize,
                     AppendStats(stats, VideosList(videos, Chunk(list, i))))

GetVideoDetails(videos, list) == DetailsLoop(videos, list, 0, <<>>)

-----------------------------------------------------------------------------
(* clean_and_fix_tags, src/main.py:265-270 *)

MaxTagLen == 30
MaxTagsLen == 500

KeepTagBuggy(tag) == Len(Strip(tag)) <= MaxTagLen + 1

\* the filter of line 267
KeepTag(tag) == Len(Strip(tag)) <= MaxTagLen

\* tag.strip().replace(".", ""), line 267
FixTag(tag) == Remove(Strip(tag), ".")

\* line 267
SplitTags(s) ==
    LET kept == SelectSeq(Split(s, Comma), KeepTag)
    IN [k \in 1..Len(kept) |-> FixTag(kept[k])]

\* the loop condition of line 268
TooLong(list) == Len(Join(CommaSpace, list)) > MaxTagsLen

PopBuggy(list, i) == list

\* tags.pop(i), i counted from 0
Pop(list, i) == SubSeq(list, 1, i) \o SubSeq(list, i + 2, Len(list))

Letters == <<"a", "b", "c", "d", "e", "f", "g", "h", "i", "j",
             "k", "l", "m", "n", "o", "p", "q", "r", "s", "t">>

\* Raw tags that exercise the filter, the trimming and the period removal
SmallTags ==
    { <<"x">>, <<>>, <<" ", "y", " ">>, <<"z", ".", "z">>, <<".", " ", "w">>,
      Rep("a", MaxTagLen), Rep("a", MaxTagLen + 1),
      Rep("b", MaxTagLen - 1) \o <<".", ".">> }

\* k distinct tags of 30 characters each
BulkTags(k) == [j \in 1..k |-> Rep("a", MaxTagLen - 1) \o <<Letters[j]>>]

TagInputs ==
    {Join(sep, list) : sep \in {Comma, CommaSpace},
                       list \in SeqsUpTo(SmallTags, MaxSmallTags) \ {<<>>}}
    \cup {Join(CommaSpace, <<Rep("c", MaxTagLen + 1)>> \o BulkTags(k)) :
             k \in (MaxBulkTags - 2)..MaxBulkTags}
    \cup {Join(CommaSpace, <<<<>>>> \o BulkTags(MaxBulkTags))}

TagsIdle ==
    /\ tg_input = <<>>
    /\ tags = <<>>
    /\ tg_result = <<>>
    /\ tg_call = 0

TagsInit ==
    /\ tg_input \in TagInputs
    /\ tags = <<>>
    /\ tg_result = <<>>
    /\ tg_call = 1

\* line 267
TagsSplit ==
    /\ pc = "tags_split"
    /\ tags' = SplitTags(tg_input)
    /\ pc' = "tags_loop"
    /\ UNCHANGED <<tg_input, tg_result, tg_call, listVars, detVars, aiVars, exVars, updVars, mainVars>>
    /\ UNCHANGED pureVars

\* one iteration of the while loop, lines 268-269; random.randint(0, -1)
\* raises ValueError when the list is empty
TagsPop ==
    /\ pc = "tags_loop"
    /\ TooLong(tags)
    /\ IF tags = <<>>
       THEN pc' = "tags_raised" /\ tags' = tags
       ELSE \E i \in 0..(Len(tags) - 1) : tags' = Pop(tags, i) /\ pc' = pc
    /\ UNCHANGED <<tg_input, tg_result, tg_call, listVars, detVars, aiVars, exVars, updVars, mainVars>>
    /\ UNCHANGED pureVars

\* line 270
TagsReturn ==
    /\ pc = "tags_loop"
    /\ ~TooLong(tags)
    /\ tg_result' = Join(CommaSpace, tags)
    /\ pc' = "tags_returned"
    /\ UNCHANGED <<tg_input, tags, tg_call, listVars, detVars, aiVars, exVars, updVars, mainVars>>
    /\ UNCHANGED pureVars

\* clean_and_fix_tags applied to its own result
TagsReapply ==
    /\ pc = "tags_returned"
    /\ tg_call = 1
    /\ tg_input' = tg_result
    /\ tg_call' = 2
    /\ tags' = <<>>
    /\ tg_result' = <<>>
    /\ pc' = "tags_split"
    /\ UNCHANGED <<listVars, detVars, aiVars, exVars, updVars, mainVars>>
    /\ UNCHANGED pureVars

-----------------------------------------------------------------------------
(* generate_ai_response, src/main.py:238-253 *)

\* retries, line 240
AiRetries == 5

\* time.sleep(5), line 252
AiBackoff == 5

Quotes == {"\"", "'"}

\* .strip('"\''), line 249
StripQuotes(s) == StripChars(s, Quotes)

AiLoopContinuesBuggy(i) == i < 6

\* for _ in range(retries), line 241
AiLoopContinues(i) == i < AiRetries

\* Texts the chat-completion API may answer with
Completions ==
    { <<"t">>, <<"\"", "t", "\"">>, <<"'", "t", "'">>,
      <<"\"", "'", "t", "'", "\"">>, <<"t", "\"", "t">>, <<>>, <<"\"">>,
      <<" ", "\"", "t", "\"">> }

Prompts == { <<"p">>, <<"q">>, <<"p", "q">> }

AiIdle ==
    /\ prompt = <<>>
    /\ ai_i = 0
    /\ ai_outcomes = <<>>
    /\ ai_sleeps = <<>>
    /\ ai_result = <<>>

\* line 240
AiInit ==
    /\ prompt \in Prompts
    /\ ai_i = 0
    /\ ai_outcomes = <<>>
    /\ ai_sleeps = <<>>
    /\ ai_result = <<>>

\* lines 243-249: the request succeeds and its text is returned
AiRequestOk ==
    /\ pc = "ai_loop"
    /\ AiLoopContinues(ai_i)
    /\ \E content \in Completions :
         /\ ai_outcomes' = Append(ai_outcomes, [ok |-> TRUE, content |-> content])
         /\ ai_result' = StripQuotes(content)
    /\ pc' = "ai_returned"
    /\ UNCHANGED <<prompt, ai_i, ai_sleeps, listVars, detVars, tagVars, exVars, updVars, mainVars>>
    /\ UNCHANGED pureVars

\* lines 243-252: the request raises OpenAIError; sleep, next iteration
AiRequestError ==
    /\ pc = "ai_loop"
    /\ AiLoopContinues(ai_i)
    /\ ai_outcomes' = Append(ai_outcomes, [ok |-> FALSE, content |-> <<>>])
    /\ ai_sleeps' = Append(ai_sleeps, AiBackoff)
    /\ ai_i' = ai_i + 1
    /\ UNCHANGED <<pc, prompt, ai_result, listVars, detVars, tagVars, exVars, updVars, mainVars>>
    /\ UNCHANGED pureVars

\* line 253
AiRaise ==
    /\ pc = "ai_loop"
    /\ ~AiLoopContinues(ai_i)
    /\ pc' = "ai_raised"
    /\ UNCHANGED <<aiVars, listVars, detVars, tagVars, exVars, updVars, mainVars>>
    /\ UNCHANGED pureVars

-----------------------------------------------------------------------------
(* extract_data, src/main.py:176-201 *)

\* @retry(tries=3, delay=2), line 176
RetryTries == 3
RetryDelay == 2

\* The keys of CATEGORY_DICT, lines 28-61
CategoryCodes == {1, 2, 10, 15} \cup (17..44)

DigitValue(c) ==
    CASE c = "0" -> 0 [] c = "1" -> 1 [] c = "2" -> 2 [] c = "3" -> 3
      [] c = "4" -> 4 [] c = "5" -> 5 [] c = "6" -> 6 [] c = "7" -> 7
      [] c = "8" -> 8 [] c = "9" -> 9

\* int(s) of a string of decimal digits
RECURSIVE DigitsToInt(_)
DigitsToInt(s) ==
    IF s = <<>> THEN 0
    ELSE 10 * DigitsToInt(SubSeq(s, 1, Len(s) - 1)) + DigitValue(s[Len(s)])

\* return_category_name raises KeyError for this code, lines 153-155
UnknownCategory(categoryId) == DigitsToInt(categoryId) \notin CategoryCodes

\* return_category_name, lines 153-155: the label is named by its code
CategoryName(categoryId) == [label |-> DigitsToInt(categoryId)]

\* lines 190-192: one row of df_videos
ProcessRow(channel_name, stats) ==
    [title |-> stats.title, description |-> stats.description,
     video_url |-> stats.video_url, channel_name |-> channel_name,
     categoryId |-> CategoryName(stats.categoryId)]

ProcessRows(channel_name, video_data) ==
    [k \in 1..Len(video_data) |-> ProcessRow(channel_name, video_data[k])]

ProcessRaisesBuggy(video_data) == video_data = <<>>

\* lines 187-197 raise: a table without rows has no column categoryId, and
\* an unknown category code has no label
ProcessRaises(video_data) ==
    \/ video_data = <<>>
    \/ \E k \in 1..Len(video_data) : UnknownCategory(video_data[k].categoryId)

FreshFinalBuggy(old) == old

\* df_videos_final = [], line 180: each call starts with its own empty list
FreshFinal(old) == <<>>

\* The uploads playlist of a channel as the platform may serve it
ChannelPages ==
    { PlaylistPages(1, <<<<1>>>>), PlaylistPages(1, <<<<2, 1>>>>),
      PlaylistPages(2, <<<<1>>, <<2, 1>>>>), PlaylistPages(1, <<<<>>>>) }

\* The platform's videos: all known, one with an unknown category, one gone
Catalogs ==
    { [id \in {1, 2} |-> VideoResource(id, <<"T">>, <<"d">>, <<"2", "7">>)],
      [id \in {1, 2} |-> VideoResource(id, <<"T">>, <<"d">>,
                             IF id = 2 THEN <<"9", "9">> ELSE <<"2", "7">>)],
      [id \in {1} |-> VideoResource(id, <<"T">>, <<"d">>, <<"1", "0">>)] }

ChannelNames == <<"xadrezBrasil", "canal2", "canal3">>

ExtractIdle ==
    /\ channels = <<>>
    /\ ex_tries = 0
    /\ ex_calls = 0
    /\ ex_sleeps = <<>>
    /\ ex_ch = 0
    /\ ex_fetched = <<>>
    /\ df_videos_final = <<>>
    /\ ex_result = <<>>

\* the wrapper's first call of extract_data, lines 176-180
ExtractInit ==
    /\ \E n \in 0..MaxChannels : channels = SubSeq(ChannelNames, 1, n)
    /\ ex_tries = RetryTries
    /\ ex_calls = 1
    /\ ex_sleeps = <<>>
    /\ ex_ch = 0
    /\ ex_fetched = <<>>
    /\ df_videos_final = <<>>
    /\ ex_result = <<>>

\* one iteration of the for loop, lines 182-199, the platform answering
ExtractChannel ==
    /\ pc = "extract_loop"
    /\ ex_ch < Len(channels)
    /\ \E pages \in ChannelPages :
         LET channel_name == channels[ex_ch + 1]
             video_data == GetVideoDetails(yt_videos, GetVideoList(pages))
         IN /\ ex_fetched' = Append(ex_fetched, video_data)
            /\ IF ProcessRaises(video_data)
               THEN /\ pc' = "extract_failed"
                    /\ UNCHANGED <<ex_ch, df_videos_final, updVars, mainVars>>
               ELSE /\ df_videos_final' =
                         Append(df_videos_final,
                                ProcessRows(channel_name, video_data))
                    /\ ex_ch' = ex_ch + 1
                    /\ pc' = pc
    /\ UNCHANGED <<channels, ex_tries, ex_calls, ex_sleeps, ex_result,
                   listVars, detVars, tagVars, aiVars, updVars, mainVars>>
    /\ UNCHANGED pureVars

\* one iteration of the for loop in which a request raises, lines 186, 72, 108
ExtractChannelRaises ==
    /\ pc = "extract_loop"
    /\ ex_ch < Len(channels)
    /\ pc' = "extract_failed"
    /\ UNCHANGED <<exVars, listVars, detVars, tagVars, aiVars, updVars, mainVars>>
    /\ UNCHANGED pureVars

\* line 201
ExtractReturn ==
    /\ pc = "extract_loop"
    /\ ex_ch >= Len(channels)
    /\ IF df_videos_final = <<>>
       THEN pc' = "extract_failed" /\ ex_result' = ex_result
       ELSE pc' = "extract_returned" /\ ex_result' = Concat(df_videos_final)
    /\ UNCHANGED <<channels, ex_tries, ex_calls, ex_sleeps, ex_ch, ex_fetched,
                   df_videos_final, listVars, detVars, tagVars, aiVars, updVars, mainVars>>
    /\ UNCHANGED pureVars

\* the retry wrapper catches the exception of a call, line 176: with tries
\* left it sleeps and calls extract_data again
RetryAgain ==
    /\ pc = "extract_failed"
    /\ ex_tries - 1 # 0
    /\ ex_tries' = ex_tries - 1
    /\ ex_sleeps' = Append(ex_sleeps, RetryDelay)
    /\ ex_calls' = ex_calls + 1
    /\ ex_ch' = 0
    /\ ex_fetched' = <<>>
    /\ df_videos_final' = FreshFinal(df_videos_final)
    /\ pc' = "extract_loop"
    /\ UNCHANGED <<channels, ex_result, listVars, detVars, tagVars, aiVars, updVars, mainVars>>
    /\ UNCHANGED pureVars

\* the retry wrapper re-raises the exception of its last try, line 176
RetryRaise ==
    /\ pc = "extract_failed"
    /\ ex_tries - 1 = 0
    /\ ex_tries' = ex_tries - 1
    /\ pc' = "extract_raised"
    /\ UNCHANGED <<channels, ex_calls, ex_sleeps, ex_ch, ex_fetched,
                   df_videos_final, ex_result, listVars, detVars, tagVars,
                   aiVars, updVars, mainVars>>
    /\ UNCHANGED pureVars

-----------------------------------------------------------------------------
(* update_youtube_videos, src/main.py:203-236 *)

\* IDENTIFIER = "\n#atualizado", line 20
IDENTIFIER == <<"\n", "#", "a", "t", "u", "a", "l", "i", "z", "a", "d", "o">>

MaxDescriptionLen == 5000

\* time.sleep(0.5), line 234, in milliseconds
UpdateDelayMs == 500

SleepAfterCallBuggy(sleeps, ok) ==
    IF ok THEN Append(sleeps, UpdateDelayMs) ELSE sleeps

\* line 234 is reached from the try and from the except of lines 227-232
SleepAfterCall(sleeps, ok) == Append(sleeps, UpdateDelayMs)

\* A cell of the table: a string, or a missing value (NaN, a float)
Str(s) == [type |-> "str", val |-> s]
NaN == [type |-> "float", val |-> <<>>]

\* isinstance(x, str)
IsStr(x) == x.type = "str"

\* row["video_url"].split("v=")[-1], line 209
VideoIdOf(video_url) ==
    LET pieces == Split(video_url, <<"v=">>) IN pieces[Len(pieces)]

\* line 210
NewDescription(row) ==
    IF IsStr(row.new_description) THEN row.new_description.val ELSE <<>>

\* line 211
NewTags(row) ==
    IF IsStr(row.new_suggested_tags)
    THEN Split(row.new_suggested_tags.val, CommaSpace) ELSE <<>>

\* line 214
HasMarker(row) == Contains(row.description, IDENTIFIER)

TooBigBuggy(row) ==
    \/ Len(NewDescription(row)) > MaxDescriptionLen + 1
    \/ Len(Join(CommaSpace, NewTags(row))) > MaxTagsLen + 1

\* line 217
TooBig(row) ==
    \/ Len(NewDescription(row)) > MaxDescriptionLen
    \/ Len(Join(CommaSpace, NewTags(row))) > MaxTagsLen

\* the body of videos().update, line 224
UpdateBody(row) ==
    [id |-> VideoIdOf(row.video_url),
     snippet |-> [categoryId |-> <<"2", "7">>,
                  description |-> NewDescription(row),
                  tags |-> NewTags(row),
                  title |-> row.title]]

\* request.execute() of videos().update: the platform replaces the snippet
\* of the video with that id
VideosUpdate(videos, body) ==
    [id \in DOMAIN videos |->
        IF <<ToString(id)>> = body.id
        THEN VideoResource(id, body.snippet.title, body.snippet.description,
                           body.snippet.categoryId)
        ELSE videos[id]]

FailedAppendBuggy(failed, row) == failed

\* failed_rows.append(row), lines 218 and 232
FailedAppend(failed, row) == Append(failed, row)

\* A serialized tag list of n characters, n >= 481
TagStringOfLen(n) ==
    Join(CommaSpace, BulkTags(15) \o <<Rep("z", n - 480)>>)

UpdateRow(id, description, new_description, new_suggested_tags) ==
    [title |-> <<"T">>, video_url |-> VideoUrl(id), description |-> description,
     new_description |-> new_description,
     new_suggested_tags |-> new_suggested_tags]

Plain == <<"d">>
Marked == <<"d">> \o IDENTIFIER \o <<"\n">>

\* The rows a table is drawn from: <<description, new_description,
\* new_suggested_tags>>
RowKinds ==
    { <<Plain, Str(<<"n">>), Str(<<"a", ",", " ", "b">>)>>,
      <<Marked, Str(<<"n">>), Str(<<"a">>)>>,
      <<Plain, Str(Rep("x", MaxDescriptionLen)), Str(TagStringOfLen(MaxTagsLen))>>,
      <<Plain, Str(Rep("x", MaxDescriptionLen + 1)), Str(<<"a">>)>>,
      <<Plain, Str(<<"n">>), Str(TagStringOfLen(MaxTagsLen + 1))>>,
      <<Plain, NaN, NaN>>,
      <<Marked, Str(Rep("x", MaxDescriptionLen + 1)), Str(<<"a">>)>> }

TableOf(kinds) ==
    [k \in 1..Len(kinds) |-> UpdateRow(k, kinds[k][1], kinds[k][2], kinds[k][3])]

\* Tables of up to MaxRows rows of any kind, and the table of 5 plain rows
UpdateTables ==
    {TableOf(kinds) : kinds \in SeqsUpTo(RowKinds, MaxRows)}
    \cup {TableOf([k \in 1..5 |->
                     <<Plain, Str(<<"n">>), Str(<<"a", ",", " ", "b">>)>>])}

\* The platform's videos when the rows of a table were fetched
PlatformOf(table) ==
    [id \in 1..Len(table) |->
        VideoResource(id, table[id].title, table[id].description, <<"2", "7">>)]

UpdateIdle ==
    /\ df = <<>>
    /\ upd_i = 0
    /\ failed_rows = <<>>
    /\ upd_calls = <<>>
    /\ upd_updated = <<>>
    /\ upd_sleeps = <<>>
    /\ upd_result = <<>>

\* lines 205-206
UpdateInit ==
    /\ df \in UpdateTables
    /\ upd_i = 0
    /\ failed_rows = <<>>
    /\ upd_calls = <<>>
    /\ upd_updated = <<>>
    /\ upd_sleeps = <<>>
    /\ upd_result = <<>>

\* lines 208-219: the row carries the marker and is skipped, or it is over
\* a size limit and is put in failed_rows; no call either way
UpdateNoCall ==
    /\ pc = "update_loop"
    /\ upd_i < Len(df)
    /\ HasMarker(df[upd_i + 1]) \/ TooBig(df[upd_i + 1])
    /\ failed_rows' = IF HasMarker(df[upd_i + 1]) THEN failed_rows
                      ELSE FailedAppend(failed_rows, df[upd_i + 1])
    /\ upd_i' = upd_i + 1
    /\ UNCHANGED <<pc, df, upd_calls, upd_updated, upd_sleeps, upd_result,
                   listVars, detVars, tagVars, aiVars, exVars, mainVars>>
    /\ UNCHANGED pureVars

\* lines 208-234: the update call succeeds and the platform stores the snippet
UpdateCallOk ==
    /\ pc = "update_loop"
    /\ upd_i < Len(df)
    /\ ~HasMarker(df[upd_i + 1])
    /\ ~TooBig(df[upd_i + 1])
    /\ upd_calls' = Append(upd_calls, [row |-> upd_i + 1, ok |-> TRUE,
                                       body |-> UpdateBody(df[upd_i + 1])])
    /\ yt_videos' = VideosUpdate(yt_videos, UpdateBody(df[upd_i + 1]))
    /\ upd_updated' = Append(upd_updated, df[upd_i + 1])
    /\ upd_sleeps' = SleepAfterCall(upd_sleeps, TRUE)
    /\ upd_i' = upd_i + 1
    /\ UNCHANGED <<pc, df, failed_rows, upd_result, det_video_list, det_i,
                   stats_list, det_requests,
                   listVars, tagVars, aiVars, exVars, mainVars>>
    /\ UNCHANGED pureVars

\* lines 208-234: the update call raises
UpdateCallRaises ==
    /\ pc = "update_loop"
    /\ upd_i < Len(df)
    /\ ~HasMarker(df[upd_i + 1])
    /\ ~TooBig(df[upd_i + 1])
    /\ upd_calls' = Append(upd_calls, [row |-> upd_i + 1, ok |-> FALSE,
                                       body |-> UpdateBody(df[upd_i + 1])])
    /\ failed_rows' = FailedAppend(failed_rows, df[upd_i + 1])
    /\ upd_sleeps' = SleepAfterCall(upd_sleeps, FALSE)
    /\ upd_i' = upd_i + 1
    /\ UNCHANGED <<pc, df, upd_updated, upd_result,
                   listVars, detVars, tagVars, aiVars, exVars, mainVars>>
    /\ UNCHANGED pureVars

\* line 236
UpdateReturn ==
    /\ pc = "update_loop"
    /\ upd_i >= Len(df)
    /\ upd_result' = failed_rows
    /\ pc' = "update_returned"
    /\ UNCHANGED <<df, upd_i, failed_rows, upd_calls, upd_updated, upd_sleeps,
                   listVars, detVars, tagVars, aiVars, exVars, mainVars>>
    /\ UNCHANGED pureVars

-----------------------------------------------------------------------------
(* The main flow, src/main.py:272-293 *)

\* generate_ai_response as a function of what the API does: the number of
\* requests that fail before one succeeds, and the text of that one
GenerateAiResponse(failures, content) ==
    [raised |-> ~AiLoopContinues(failures),
     requests |-> IF AiLoopContinues(failures) THEN failures + 1 ELSE failures,
     text |-> StripQuotes(content)]

\* The strings clean_and_fix_tags may return for a list of tags, lines 268-270
RECURSIVE PopResults(_)
PopResults(list) ==
    IF TooLong(list)
    THEN UNION {PopResults(Pop(list, i)) : i \in 0..(Len(list) - 1)}
    ELSE {Join(CommaSpace, list)}

\* clean_and_fix_tags, lines 265-270
CleanAndFixTags(s) == PopResults(SplitTags(s))

\* create_new_description, line 258
NewDescriptionOf(text, row) == text \o <<"\n", "\n">> \o row.description

KeepRowBuggy(row) == TRUE

\* df["description"].str.contains(IDENTIFIER) == False, line 281
KeepRow(row) == ~Contains(row.description, IDENTIFIER)

\* df[...], line 281; the columns of lines 284-285 are not assigned yet
FilterRows(table) ==
    LET kept == SelectSeq(table, KeepRow)
    IN [k \in 1..Len(kept) |->
          [title |-> kept[k].title, description |-> kept[k].description,
           video_url |-> kept[k].video_url,
           channel_name |-> kept[k].channel_name,
           categoryId |-> kept[k].categoryId,
           new_description |-> NaN, new_suggested_tags |-> NaN]]

\* df["new_description"] = ..., line 284
WithNewDescription(table, col) ==
    [k \in 1..Len(table) |-> [table[k] EXCEPT !.new_description = Str(col[k])]]

\* df["new_suggested_tags"] = ..., lines 285-286
WithNewTags(table, col) ==
    [k \in 1..Len(table) |-> [table[k] EXCEPT !.new_suggested_tags = Str(col[k])]]

\* CHANNELS, line 277
CHANNELS == <<"xadrezBrasil">>

\* The uploads playlist of the channel: every video of the platform, one page
UploadsOf(videos) ==
    PlaylistPages(1, <<[k \in 1..Cardinality(DOMAIN videos) |-> k]>>)

\* What the chat-completion API answers to the two prompts
DescriptionCompletions ==
    { <<"\"", "s", "e", "o", "\"">>, Rep("x", MaxDescriptionLen) }
TagCompletions == { <<"a", ".", ",", "b">> }

\* Requests that fail before one succeeds
AiFailureCounts == {0, AiRetries}

\* The platform's videos before the first run
Platforms ==
    {[id \in 1..n |-> VideoResource(id, <<"T">>, d[id], c[id])] :
        n \in 1..MaxVideos, d \in [1..MaxVideos -> {Plain, Marked}],
        c \in [1..MaxVideos -> {<<"2", "7">>, <<"9", "9">>}]}

MainIdle ==
    /\ run = 0
    /\ m_pc = "idle"
    /\ m_extracted = <<>>
    /\ m_df = <<>>
    /\ m_i = 0
    /\ m_col = <<>>
    /\ gen_log = <<>>
    /\ m_export = FALSE
    /\ prev_updated = {}

MainInit ==
    /\ run = 1
    /\ m_pc = "extract"
    /\ m_extracted = <<>>
    /\ m_df = <<>>
    /\ m_i = 0
    /\ m_col = <<>>
    /\ gen_log = <<>>
    /\ m_export = FALSE
    /\ prev_updated = {}

\* line 280: extract_data returns the table of the channel's videos
MainExtract ==
    /\ pc = "main"
    /\ m_pc = "extract"
    /\ LET video_data == GetVideoDetails(yt_videos, GetVideoList(UploadsOf(yt_videos)))
       IN /\ ~ProcessRaises(video_data)
          /\ m_extracted' = ProcessRows(CHANNELS[1], video_data)
    /\ m_pc' = "filter"
    /\ UNCHANGED <<pc, run, m_df, m_i, m_col, gen_log, m_export, prev_updated,
                   listVars, detVars, tagVars, aiVars, exVars, updVars>>
    /\ UNCHANGED pureVars

\* line 280: extract_data raises after its third try
MainExtractRaises ==
    /\ pc = "main"
    /\ m_pc = "extract"
    /\ m_pc' = "crashed"
    /\ UNCHANGED <<pc, run, m_extracted, m_df, m_i, m_col, gen_log, m_export,
                   prev_updated,
                   listVars, detVars, tagVars, aiVars, exVars, updVars>>
    /\ UNCHANGED pureVars

\* lines 281-283
MainFilter ==
    /\ pc = "main"
    /\ m_pc = "filter"
    /\ m_df' = FilterRows(m_extracted)
    /\ m_pc' = IF FilterRows(m_extracted) = <<>> THEN "done" ELSE "describe"
    /\ UNCHANGED <<pc, run, m_extracted, m_i, m_col, gen_log, m_export,
                   prev_updated,
                   listVars, detVars, tagVars, aiVars, exVars, updVars>>
    /\ UNCHANGED pureVars

AfterGenerationRaisesBuggy == "update"

\* the exception of line 253 leaves df.apply (lines 284, 285) and ends the
\* script
AfterGenerationRaises == "crashed"

\* line 284: create_new_description for the next row; the column is
\* assigned once the last row is done
MainDescribe ==
    /\ pc = "main"
    /\ m_pc = "describe"
    /\ \E failures \in AiFailureCounts, content \in DescriptionCompletions :
         LET row == m_df[m_i + 1]
             r == GenerateAiResponse(failures, content)
             col == Append(m_col, NewDescriptionOf(r.text, row))
         IN /\ gen_log' = Append(gen_log, [video |-> VideoIdOf(row.video_url),
                                           column |-> "new_description",
                                           requests |-> r.requests])
            /\ IF r.raised
               THEN m_pc' = AfterGenerationRaises /\ UNCHANGED <<m_df, m_i, m_col>>
               ELSE IF m_i + 1 < Len(m_df)
               THEN /\ m_col' = col
                    /\ m_i' = m_i + 1
                    /\ UNCHANGED <<m_df, m_pc>>
               ELSE /\ m_df' = WithNewDescription(m_df, col)
                    /\ m_col' = <<>>
                    /\ m_i' = 0
                    /\ m_pc' = "suggest"
    /\ UNCHANGED <<pc, run, m_extracted, m_export, prev_updated,
                   listVars, detVars, tagVars, aiVars, exVars, updVars>>
    /\ UNCHANGED pureVars

\* line 285: suggest_tags for the next row
MainSuggestTags ==
    /\ pc = "main"
    /\ m_pc = "suggest"
    /\ \E failures \in AiFailureCounts, content \in TagCompletions :
         LET row == m_df[m_i + 1]
             r == GenerateAiResponse(failures, content)
             col == Append(m_col, r.text)
         IN /\ gen_log' = Append(gen_log, [video |-> VideoIdOf(row.video_url),
                                           column |-> "new_suggested_tags",
                                           requests |-> r.requests])
            /\ IF r.raised
               THEN m_pc' = AfterGenerationRaises /\ UNCHANGED <<m_df, m_i, m_col>>
               ELSE IF m_i + 1 < Len(m_df)
               THEN /\ m_col' = col
                    /\ m_i' = m_i + 1
                    /\ UNCHANGED <<m_df, m_pc>>
               ELSE /\ m_df' = WithNewTags(m_df, col)
                    /\ m_col' = <<>>
                    /\ m_i' = 0
                    /\ m_pc' = "clean"
    /\ UNCHANGED <<pc, run, m_extracted, m_export, prev_updated,
                   listVars, detVars, tagVars, aiVars, exVars, updVars>>
    /\ UNCHANGED pureVars

\* line 286: clean_and_fix_tags for the next row
MainCleanTags ==
    /\ pc = "main"
    /\ m_pc = "clean"
    /\ \E cleaned \in CleanAndFixTags(m_df[m_i + 1].new_suggested_tags.val) :
         LET col == Append(m_col, cleaned)
         IN IF m_i + 1 < Len(m_df)
            THEN /\ m_col' = col
                 /\ m_i' = m_i + 1
                 /\ UNCHANGED <<m_df, m_pc>>
            ELSE /\ m_df' = WithNewTags(m_df, col)
                 /\ m_col' = <<>>
                 /\ m_i' = 0
                 /\ m_pc' = "update"
    /\ UNCHANGED <<pc, run, m_extracted, gen_log, m_export, prev_updated,
                   listVars, detVars, tagVars, aiVars, exVars, updVars>>
    /\ UNCHANGED pureVars

\* line 289: update_youtube_videos(df) is called
MainCallUpdate ==
    /\ pc = "main"
    /\ m_pc = "update"
    /\ df' = m_df
    /\ upd_i' = 0
    /\ failed_rows' = <<>>
    /\ upd_calls' = <<>>
    /\ upd_updated' = <<>>
    /\ upd_sleeps' = <<>>
    /\ upd_result' = <<>>
    /\ pc' = "update_loop"
    /\ UNCHANGED <<mainVars, listVars, detVars, tagVars, aiVars, exVars>>
    /\ UNCHANGED pureVars

\* lines 289-293: update_youtube_videos has returned
MainExport ==
    /\ pc = "update_returned"
    /\ m_pc = "update"
    /\ m_export' = (upd_result # <<>>)
    /\ m_pc' = "done"
    /\ pc' = "main"
    /\ UNCHANGED <<run, m_extracted, m_df, m_i, m_col, gen_log, prev_updated,
                   listVars, detVars, tagVars, aiVars, exVars, updVars>>
    /\ UNCHANGED pureVars

\* The script is run again on the platform as the run left it
MainRerun ==
    /\ pc = "main"
    /\ m_pc \in {"done", "crashed"}
    /\ run < MaxRuns
    /\ run' = run + 1
    /\ prev_updated' = {upd_calls[c].body.id :
                          c \in {x \in 1..Len(upd_calls) : upd_calls[x].ok}}
    /\ m_pc' = "extract"
    /\ m_extracted' = <<>>
    /\ m_df' = <<>>
    /\ m_i' = 0
    /\ m_col' = <<>>
    /\ gen_log' = <<>>
    /\ m_export' = FALSE
    /\ df' = <<>>
    /\ upd_i' = 0
    /\ failed_rows' = <<>>
    /\ upd_calls' = <<>>
    /\ upd_updated' = <<>>
    /\ upd_sleeps' = <<>>
    /\ upd_result' = <<>>
    /\ UNCHANGED <<pc, listVars, detVars, tagVars, aiVars, exVars>>
    /\ UNCHANGED pureVars

-----------------------------------------------------------------------------
(* calculate_minutes, src/main.py:142-151 *)

MaxDurationLen == 5

Digits == {"0", "1", "2", "3", "4", "5", "6", "7", "8", "9"}
Signs == {"+", "-"}

\* int(s) of a string: surrounding whitespace is dropped, one sign is
\* allowed, the rest is a non-empty run of decimal digits. Anything else
\* raises ValueError.
IntBody(s) ==
    LET t == Strip(s)
    IN IF t # <<>> /\ t[1] \in Signs THEN Tail(t) ELSE t

IntParses(s) ==
    /\ IntBody(s) # <<>>
    /\ \A i \in 1..Len(IntBody(s)) : IntBody(s)[i] \in Digits

IntOf(s) ==
    LET t == Strip(s)
    IN IF t[1] = "-" THEN 0 - DigitsToInt(IntBody(s)) ELSE DigitsToInt(IntBody(s))

\* x[2:]
FromThird(x) == SubSeq(x, 3, Len(x))

\* x[2:].split('H')[0], line 144
HoursText(x) == Split(FromThird(x), <<"H">>)[1]

\* x[2:].split('H')[-1].split('M')[0], line 148
MinutesText(x) ==
    LET parts == Split(FromThird(x), <<"H">>)
    IN Split(parts[Len(parts)], <<"M">>)[1]

\* try: ... int(...) except: ... = 0, lines 143-150
IntOrZero(s) == IF IntParses(s) THEN IntOf(s) ELSE 0

TotalMinutesBuggy(hours, minutes) == hours + minutes

\* line 151
TotalMinutes(hours, minutes) == hours * 60 + minutes

\* calculate_minutes as a function of its argument
CalculateMinutes(x) ==
    TotalMinutes(IntOrZero(HoursText(x)), IntOrZero(MinutesText(x)))

\* The components a duration is written with; none is the empty text
HourTexts == {<<>>, <<"1">>, <<"2">>, <<"1", "2">>}
MinuteTexts == {<<>>, <<"5">>, <<"3", "0">>, <<"4", "5">>}
SecondTexts == {<<>>, <<"3", "0">>}

WithUnit(text, unit) == IF text = <<>> THEN <<>> ELSE text \o <<unit>>

\* "PT[h H][m M][s S]"
Duration(h, m, s) ==
    <<"P", "T">> \o WithUnit(h, "H") \o WithUnit(m, "M") \o WithUnit(s, "S")

WellFormedDurations ==
    {Duration(h, m, s) : h \in HourTexts, m \in MinuteTexts, s \in SecondTexts}

DurationAlphabet == {"P", "T", "H", "M", "S", "1", "-"}

\* The arguments: the well-formed durations, every short text over the
\* alphabet, and three texts with whitespace or no "PT" in front
DurationInputs ==
    WellFormedDurations
      \cup SeqsUpTo(DurationAlphabet, MaxDurationLen)
      \cup { <<"P", "T", " ", "5", " ", "M">>, <<"1", "H", "3", "0", "M">>,
             <<"a", "b", "c">>, <<"P", "T", "+", "2", "H", "-", "3", "M">> }

MinutesIdle ==
    /\ cm_x = <<>>
    /\ cm_hours = 0
    /\ cm_minutes = 0
    /\ cm_result = 0

MinutesInit ==
    /\ cm_x \in DurationInputs
    /\ cm_hours = 0
    /\ cm_minutes = 0
    /\ cm_result = 0

\* lines 143-146
CalcHours ==
    /\ pc = "minutes_hours"
    /\ cm_hours' = IntOrZero(HoursText(cm_x))
    /\ pc' = "minutes_minutes"
    /\ UNCHANGED <<cm_x, cm_minutes, cm_result, metVars, listVars, detVars,
                   tagVars, aiVars, exVars, updVars, mainVars>>

\* lines 147-150
CalcMinutes ==
    /\ pc = "minutes_minutes"
    /\ cm_minutes' = IntOrZero(MinutesText(cm_x))
    /\ pc' = "minutes_return"
    /\ UNCHANGED <<cm_x, cm_hours, cm_result, metVars, listVars, detVars,
                   tagVars, aiVars, exVars, updVars, mainVars>>

\* line 151
CalcReturn ==
    /\ pc = "minutes_return"
    /\ cm_result' = TotalMinutes(cm_hours, cm_minutes)
    /\ pc' = "minutes_returned"
    /\ UNCHANGED <<cm_x, cm_hours, cm_minutes, metVars, listVars, detVars,
                   tagVars, aiVars, exVars, updVars, mainVars>>

-----------------------------------------------------------------------------
(* The metrics of extract_data, src/main.py:194-196. Time is counted in     *)
(* hours.                                                                  *)

MaxAgeHours == 250
MaxFutureHours == 30

\* Timedelta.days counts whole days of 24 hours, line 195
HoursPerDay == 24

\* .clip(lower=1), line 195
ClipLowerBuggy(v, lower) == v
ClipLower(v, lower) == IF v < lower THEN lower ELSE v

MinDays == 1

\* (pd.Timestamp.now() - published).dt.days.clip(lower=1), line 195: the
\* days of a Timedelta are rounded down, also below zero
DaysFromPublish(now, published) ==
    ClipLower((now - published.at) \div HoursPerDay, MinDays)

\* line 195 raises TypeError when published carries a time zone, since
\* pd.Timestamp.now() carries none
DaysRaises(published) == published.aware

\* a number, as opposed to Str(s)
Num(n) == [type |-> "int", val |-> n]

\* view_count // days_from_publish, line 196
ViewsPerDay(view_count, days) == view_count.val \div days

\* line 196 raises TypeError when view_count is text
ViewsRaises(view_count) == IsStr(view_count)

\* statistics.get('viewCount', 0), line 124: whatever the platform sent,
\* a number or a text
ViewCounts ==
    {Num(0), Num(7), Num(50), Num(100), Str(<<"1", "0", "0">>)}

PublishedTimes ==
    [at : 0..(MaxAgeHours + MaxFutureHours), aware : BOOLEAN]

MetricsIdle ==
    /\ met_published = [at |-> 0, aware |-> FALSE]
    /\ met_now = 0
    /\ met_views = Num(0)
    /\ met_days = 0
    /\ met_vpd = 0

MetricsInit ==
    /\ met_published \in PublishedTimes
    /\ met_now = MaxAgeHours
    /\ met_views \in ViewCounts
    /\ met_days = 0
    /\ met_vpd = 0

\* line 195
MetricsDays ==
    /\ pc = "metrics_days"
    /\ IF DaysRaises(met_published)
       THEN pc' = "metrics_raised" /\ met_days' = met_days
       ELSE /\ pc' = "metrics_views"
            /\ met_days' = DaysFromPublish(met_now, met_published)
    /\ UNCHANGED <<met_published, met_now, met_views, met_vpd, calcVars,
                   listVars, detVars, tagVars, aiVars, exVars, updVars,
                   mainVars>>

\* line 196
MetricsViews ==
    /\ pc = "metrics_views"
    /\ IF ViewsRaises(met_views)
       THEN pc' = "metrics_raised" /\ met_vpd' = met_vpd
       ELSE /\ pc' = "metrics_done"
            /\ met_vpd' = ViewsPerDay(met_views, met_days)
    /\ UNCHANGED <<met_published, met_now, met_views, met_days, calcVars,
                   listVars, detVars, tagVars, aiVars, exVars, updVars,
                   mainVars>>

-----------------------------------------------------------------------------
(* Specifications *)

InitMain ==
    /\ pc = "main"
    /\ MinutesIdle /\ MetricsIdle
    /\ MainInit
    /\ ListIdle /\ TagsIdle /\ AiIdle /\ ExtractIdle /\ UpdateIdle
    /\ yt_videos \in Platforms
    /\ det_video_list = <<>> /\ det_i = 0 /\ stats_list = <<>>
    /\ det_requests = <<>>
NextMain ==
    \/ MainExtract \/ MainExtractRaises \/ MainFilter \/ MainDescribe
    \/ MainSuggestTags \/ MainCleanTags \/ MainCallUpdate
    \/ UpdateNoCall \/ UpdateCallOk \/ UpdateCallRaises \/ UpdateReturn
    \/ MainExport \/ MainRerun
SpecMain == InitMain /\ [][NextMain]_vars

InitUpdate ==
    /\ pc = "update_loop"
    /\ MinutesIdle /\ MetricsIdle
    /\ UpdateInit
    /\ ListIdle /\ TagsIdle /\ AiIdle /\ ExtractIdle /\ MainIdle
    /\ yt_videos = PlatformOf(df)
    /\ det_video_list = <<>> /\ det_i = 0 /\ stats_list = <<>>
    /\ det_requests = <<>>
NextUpdate ==
    UpdateNoCall \/ UpdateCallOk \/ UpdateCallRaises \/ UpdateReturn
SpecUpdate == InitUpdate /\ [][NextUpdate]_vars

InitExtract ==
    /\ pc = "extract_loop"
    /\ MinutesIdle /\ MetricsIdle
    /\ ExtractInit
    /\ ListIdle /\ TagsIdle /\ AiIdle /\ UpdateIdle /\ MainIdle
    /\ yt_videos \in Catalogs
    /\ det_video_list = <<>> /\ det_i = 0 /\ stats_list = <<>>
    /\ det_requests = <<>>
NextExtract ==
    ExtractChannel \/ ExtractChannelRaises \/ ExtractReturn \/ RetryAgain
    \/ RetryRaise
SpecExtract == InitExtract /\ [][NextExtract]_vars

InitAi ==
    /\ pc = "ai_loop"
    /\ MinutesIdle /\ MetricsIdle
    /\ AiInit
    /\ ListIdle /\ DetailsIdle /\ TagsIdle /\ ExtractIdle /\ UpdateIdle /\ MainIdle
NextAi == AiRequestOk \/ AiRequestError \/ AiRaise
SpecAi == InitAi /\ [][NextAi]_vars

InitTags ==
    /\ pc = "tags_split"
    /\ MinutesIdle /\ MetricsIdle
    /\ TagsInit
    /\ ListIdle /\ DetailsIdle /\ AiIdle /\ ExtractIdle /\ UpdateIdle /\ MainIdle
NextTags == TagsSplit \/ TagsPop \/ TagsReturn \/ TagsReapply
SpecTags == InitTags /\ [][NextTags]_vars
\* the interpreter keeps running the while loop and the return after it
SpecTagsFair == SpecTags /\ WF_vars(TagsPop) /\ WF_vars(TagsReturn)

InitList ==
    /\ pc = "list_loop"
    /\ MinutesIdle /\ MetricsIdle
    /\ ListInit
    /\ DetailsIdle /\ TagsIdle /\ AiIdle /\ ExtractIdle /\ UpdateIdle /\ MainIdle
NextList == ListExecute \/ ListReturn
SpecList == InitList /\ [][NextList]_vars
\* request.execute() returns and the interpreter keeps running the loop
SpecListFair == SpecList /\ WF_vars(NextList)

InitDetails ==
    /\ pc = "details_loop"
    /\ MinutesIdle /\ MetricsIdle
    /\ DetailsInit
    /\ ListIdle /\ TagsIdle /\ AiIdle /\ ExtractIdle /\ UpdateIdle /\ MainIdle
NextDetails == DetailsRequest \/ DetailsReturn
SpecDetails == InitDetails /\ [][NextDetails]_vars

InitMinutes ==
    /\ pc = "minutes_hours"
    /\ MinutesInit
    /\ MetricsIdle
    /\ ListIdle /\ DetailsIdle /\ TagsIdle /\ AiIdle /\ ExtractIdle /\ UpdateIdle
    /\ MainIdle
NextMinutes == CalcHours \/ CalcMinutes \/ CalcReturn
SpecMinutes == InitMinutes /\ [][NextMinutes]_vars

InitMetrics ==
    /\ pc = "metrics_days"
    /\ MetricsInit
    /\ MinutesIdle
    /\ ListIdle /\ DetailsIdle /\ TagsIdle /\ AiIdle /\ ExtractIdle /\ UpdateIdle
    /\ MainIdle
NextMetrics == MetricsDays \/ MetricsViews
SpecMetrics == InitMetrics /\ [][NextMetrics]_vars

-----------------------------------------------------------------------------
(* Claims about get_video_list *)

AllPageItems == Concat([i \in 1..Len(lst_pages) |-> lst_pages[i].items])

\* C1: when get_video_list returns, video_list is the concatenation of all
\* pages' video ids in page order with duplicates removed (first occurrence
\* kept), and exactly one list request was issued per page (the i-th request
\* fetched page i).
C1_ListResult ==
    pc = "list_returned" =>
        /\ video_list = FirstOccurrences(AllPageItems)
        /\ Len(lst_requests) = Len(lst_pages)
        /\ \A i \in 1..Len(lst_requests) :
              PlaylistItemsList(lst_pages, lst_requests[i]) = lst_pages[i]

\* Three pages, the second empty, the third repeating an id of the first
C1_Witness ==
    /\ pc = "list_returned"
    /\ Len(lst_pages) = 3
    /\ lst_pages[1].items = <<1, 2>>
    /\ lst_pages[2].items = <<>>
    /\ lst_pages[3].items = <<1>>
    /\ video_list = <<1, 2>>
    /\ Len(lst_requests) = 3

-----------------------------------------------------------------------------
(* Claims about get_video_details *)

\* C2: get_video_details issues exactly ceil(n/50) detail requests, the k-th
\* carrying the k-th consecutive chunk of the input; every chunk has at most
\* 50 ids and all but the last exactly 50, so the requests together carry
\* the input once, in order; 120 ids are requested as 50, 50, 20.
C2_Chunks ==
    LET n == Len(det_video_list)
        r == Len(det_requests)
    IN /\ \A k \in 1..r :
            /\ det_requests[k] = SubSeq(det_video_list, 50 * (k - 1) + 1,
                                        Min(50 * k, n))
            /\ Len(det_requests[k]) <= 50
            /\ Len(det_requests[k]) >= 1
            /\ k < r => Len(det_requests[k]) = 50
       /\ pc = "details_returned" =>
            /\ r = (n + 49) \div 50
            /\ Concat(det_requests) = det_video_list
            /\ n = 120 => [k \in 1..r |-> Len(det_requests[k])] = <<50, 50, 20>>

C2_Witness ==
    /\ pc = "details_returned"
    /\ Len(det_video_list) = 120
    /\ Len(det_requests) = 3
    /\ Len(det_requests[1]) = 50
    /\ Len(det_requests[2]) = 50
    /\ det_requests[3] = [k \in 1..20 |-> 100 + k]

-----------------------------------------------------------------------------
(* Claims about clean_and_fix_tags *)

\* The tags of a serialized tag string, as update_youtube_videos reads them
\* (line 211)
TagsOf(s) == Split(s, CommaSpace)

\* C7: the string clean_and_fix_tags returns is at most 500 characters long
\* and every tag in it is at most 30 characters long.
C7_TagLimits ==
    pc = "tags_returned" =>
        /\ Len(tg_result) <= 500
        /\ \A k \in 1..Len(TagsOf(tg_result)) : Len(TagsOf(tg_result)[k]) <= 30

\* An input of more than 500 characters with a 31-character tag: the long
\* tag is dropped and tags are removed until the result fits.
C7_Witness ==
    /\ pc = "tags_returned"
    /\ tg_call = 1
    /\ Len(tg_input) > 500
    /\ \E k \in 1..Len(Split(tg_input, Comma)) :
          Len(Strip(Split(tg_input, Comma)[k])) = 31
    /\ Len(tags) = 15
    /\ Len(tags) < Len(SplitTags(tg_input))
    /\ Len(tg_result) = 478

\* C8: sanitizing an already-compliant input is a no-op. Every result of
\* clean_and_fix_tags is compliant (C7), so the claim says in particular that
\* a second call, on the result of the first, returns its input unchanged.
C8_Idempotent ==
    (pc = "tags_returned" /\ tg_call = 2) => tg_result = tg_input

-----------------------------------------------------------------------------
(* Claims about generate_ai_response *)

\* s without its enclosing quote characters: the part of s from its first to
\* its last character that is not a quote
Unquoted(s) ==
    LET inner == {i \in 1..Len(s) : s[i] # "\"" /\ s[i] # "'"}
    IN [k \in 1..Cardinality({i \in 1..Len(s) :
                    \E a \in inner, b \in inner : a <= i /\ i <= b}) |->
          s[k - 1 + CHOOSE a \in inner : \A b \in inner : a <= b]]

AiFailures == {k \in 1..Len(ai_outcomes) : ~ai_outcomes[k].ok}

\* C10: generate_ai_response issues at most 5 chat-completion requests; every
\* failed request is followed by a sleep of 5 and, while fewer than 5 have
\* failed, by another request; the first successful request ends the call,
\* which returns its text without the enclosing quote characters; after 5
\* failures the call raises and returns nothing.
C10_AiRetries ==
    /\ Len(ai_outcomes) <= 5
    /\ ai_sleeps = [k \in 1..Cardinality(AiFailures) |-> 5]
    /\ \A k \in 1..(Len(ai_outcomes) - 1) : ~ai_outcomes[k].ok
    /\ pc = "ai_loop" => AiFailures = 1..Len(ai_outcomes)
    /\ pc = "ai_returned" =>
          /\ ai_outcomes[Len(ai_outcomes)].ok
          /\ ai_result = Unquoted(ai_outcomes[Len(ai_outcomes)].content)
    /\ pc = "ai_raised" =>
          /\ Len(ai_outcomes) = 5
          /\ AiFailures = 1..5
          /\ ai_result = <<>>
    /\ (pc = "ai_loop" /\ Len(ai_outcomes) < 5) => ENABLED AiRequestOk

\* Four failures, then a quoted text is returned unquoted
C10_Witness ==
    /\ pc = "ai_returned"
    /\ Len(ai_outcomes) = 5
    /\ ai_sleeps = <<5, 5, 5, 5>>
    /\ ai_outcomes[5].content = <<"\"", "'", "t", "'", "\"">>
    /\ ai_result = <<"t">>

-----------------------------------------------------------------------------
(* Claims about extract_data *)

\* C9: extract_data is called at most 3 times, with a sleep of 2 between
\* calls; every call starts again from the first channel; the first call that
\* completes returns the table of the rows fetched in that call alone; after
\* the third failed call the exception propagates and nothing more happens.
C9_ExtractRetry ==
    /\ ex_calls <= 3
    /\ ex_sleeps = [k \in 1..(ex_calls - 1) |-> 2]
    /\ Len(df_videos_final) = ex_ch
    /\ pc = "extract_returned" =>
          /\ Len(ex_fetched) = Len(channels)
          /\ ex_result = Concat([c \in 1..Len(channels) |->
                                   ProcessRows(channels[c], ex_fetched[c])])
    /\ pc = "extract_failed" => ex_calls = 3 - ex_tries + 1
    /\ pc = "extract_raised" =>
          /\ ex_calls = 3
          /\ ex_result = <<>>
          /\ ~ENABLED NextExtract

\* Two calls fail after fetching rows of the first channel, the third call
\* fetches other rows and returns them
C9_Witness ==
    /\ pc = "extract_returned"
    /\ ex_calls = 3
    /\ ex_sleeps = <<2, 2>>
    /\ Len(channels) = 2
    /\ Len(ex_result) = 3
    /\ ex_result[1].video_url = VideoUrl(1)
    /\ ex_result[2].video_url = VideoUrl(2)
    /\ ex_result[2].channel_name = "canal2"

-----------------------------------------------------------------------------
(* Claims about update_youtube_videos *)

\* Length of the generated description and of the serialized tags of a row
\* (a missing value counts as empty)
DescriptionLen(row) ==
    IF row.new_description.type = "str" THEN Len(row.new_description.val) ELSE 0

SerializedTagsLen(row) ==
    IF row.new_suggested_tags.type = "str"
    THEN Len(row.new_suggested_tags.val) ELSE 0

OverLimit(row) == DescriptionLen(row) > 5000 \/ SerializedTagsLen(row) > 500

AllRowsEligible ==
    \A k \in 1..Len(df) : ~HasMarker(df[k]) /\ ~OverLimit(df[k])

\* C3: no row gets more than one update call, the loop never stops before
\* the last row, and for a table of rows without the marker and within the
\* size limits the function issues one call per row, in row order, and
\* returns exactly the rows whose call raised, the others being reported
\* updated.
C3_Isolation ==
    /\ \A a, b \in 1..Len(upd_calls) :
          upd_calls[a].row = upd_calls[b].row => a = b
    /\ pc \in {"update_loop", "update_returned"}
    /\ pc = "update_returned" => upd_i = Len(df)
    /\ (pc = "update_returned" /\ AllRowsEligible) =>
          /\ Len(upd_calls) = Len(df)
          /\ \A k \in 1..Len(df) :
                /\ upd_calls[k].row = k
                /\ upd_calls[k].body.id = <<ToString(k)>>
          /\ upd_result = Pick(df, {k \in 1..Len(df) : ~upd_calls[k].ok})
          /\ upd_updated = Pick(df, {k \in 1..Len(df) : upd_calls[k].ok})

\* Five rows, the call of row 3 raises
C3_Witness ==
    /\ pc = "update_returned"
    /\ Len(df) = 5
    /\ Len(upd_calls) = 5
    /\ upd_result = <<df[3]>>
    /\ upd_updated = <<df[1], df[2], df[4], df[5]>>

\* C4: a row without the marker whose generated description is longer than
\* 5000 characters or whose serialized tags are longer than 500 is put in
\* the failure table and gets no update call; every update call carries a
\* description of at most 5000 characters and tags that serialize to at most
\* 500.
C4_SizeLimits ==
    /\ \A c \in 1..Len(upd_calls) :
          /\ Len(upd_calls[c].body.snippet.description) <= 5000
          /\ Len(Join(CommaSpace, upd_calls[c].body.snippet.tags)) <= 500
    /\ \A k \in 1..upd_i :
          (~HasMarker(df[k]) /\ OverLimit(df[k])) =>
              /\ df[k] \in Range(failed_rows)
              /\ \A c \in 1..Len(upd_calls) : upd_calls[c].row # k

\* A row with 5001 characters of description fails without a call, a row
\* with 501 characters of tags too, a row at both limits is sent
C4_Witness ==
    /\ pc = "update_returned"
    /\ Len(df) = 3
    /\ DescriptionLen(df[1]) = 5001
    /\ SerializedTagsLen(df[2]) = 501
    /\ DescriptionLen(df[3]) = 5000 /\ SerializedTagsLen(df[3]) = 500
    /\ upd_result = <<df[1], df[2]>>
    /\ Len(upd_calls) = 1
    /\ upd_calls[1].row = 3
    /\ upd_calls[1].ok

-----------------------------------------------------------------------------
(* Claims about the main flow *)

\* The rows extract_data returned in this run whose raw description
\* contains the processed marker
MarkedExtracted ==
    {k \in 1..Len(m_extracted) : Contains(m_extracted[k].description, IDENTIFIER)}

UrlsOf(table) == {table[k].video_url : k \in 1..Len(table)}

\* C5: for a record whose raw description contains the processed marker, a
\* run issues no text-generation request and no update call, and the record
\* is neither in the failure table nor reported updated.
C5_MarkedExcluded ==
    \A k \in MarkedExtracted :
        LET url == m_extracted[k].video_url
        IN /\ \A g \in 1..Len(gen_log) : gen_log[g].video # VideoIdOf(url)
           /\ \A c \in 1..Len(upd_calls) : upd_calls[c].body.id # VideoIdOf(url)
           /\ url \notin UrlsOf(m_df)
           /\ url \notin UrlsOf(failed_rows) \cup UrlsOf(upd_result)
           /\ url \notin UrlsOf(upd_updated)

\* Inside update_youtube_videos (checked under SpecUpdate): a row with the
\* marker gets no call and is not a failure, whatever its generated fields
C5_UpdateSkipsMarked ==
    \A k \in 1..upd_i :
        Contains(df[k].description, IDENTIFIER) =>
            /\ df[k] \notin Range(failed_rows)
            /\ \A c \in 1..Len(upd_calls) : upd_calls[c].row # k

\* A run over a marked and an unmarked video: only the unmarked one gets
\* text-generation requests and an update call
C5_Witness ==
    /\ run = 1
    /\ m_pc = "done"
    /\ Len(m_extracted) = 2
    /\ MarkedExtracted = {1}
    /\ Len(gen_log) = 2
    /\ \A g \in 1..2 : gen_log[g].video = <<"2">>
    /\ Len(upd_calls) = 1
    /\ upd_calls[1].body.id = <<"2">>
    /\ upd_calls[1].ok

\* C6: a video whose update call succeeded in a run gets no text-generation
\* request and no update call in the next run (its description, as written
\* to the platform, carrying the processed marker).
C6_NoReprocessing ==
    /\ \A g \in 1..Len(gen_log) : gen_log[g].video \notin prev_updated
    /\ \A c \in 1..Len(upd_calls) : upd_calls[c].body.id \notin prev_updated

\* The description every successful update call writes carries the marker
C6_MarkerWritten ==
    \A c \in 1..Len(upd_calls) :
        upd_calls[c].ok =>
            Contains(upd_calls[c].body.snippet.description, IDENTIFIER)

-----------------------------------------------------------------------------
(* Claims about calculate_minutes *)

DurationUnits == {"H", "M", "S"}

\* x is written "PT[h H][m M][s S]": each component a run of digits and its
\* unit, the units in this order
IsWellFormedDuration(x) ==
    LET rest == FromThird(x)
        units == SelectSeq(rest, LAMBDA c : c \in DurationUnits)
    IN /\ Len(x) >= 2 /\ x[1] = "P" /\ x[2] = "T"
       /\ \A i \in 1..Len(rest) : rest[i] \in Digits \cup DurationUnits
       /\ rest # <<>> => rest[Len(rest)] \in DurationUnits
       /\ \A i \in 1..Len(rest) :
            rest[i] \in DurationUnits => i > 1 /\ rest[i - 1] \in Digits
       /\ units \in {<<>>, <<"H">>, <<"M">>, <<"S">>, <<"H", "M">>,
                     <<"H", "S">>, <<"M", "S">>, <<"H", "M", "S">>}

\* C11: for every well-formed duration "PT[h H][m M][s S]" calculate_minutes
\* returns hours * 60 + minutes, the seconds discarded and a missing
\* component counted as 0; "PT1H30M" gives 90, "PT45M" 45, "PT2H" 120 and
\* "PT1H5M30S" 65.
C11_WellFormedMinutes ==
    pc = "minutes_returned" =>
       /\ \A h \in HourTexts, m \in MinuteTexts, s \in SecondTexts :
             cm_x = Duration(h, m, s) =>
                cm_result = DigitsToInt(h) * 60 + DigitsToInt(m)
       /\ cm_x = <<"P", "T", "1", "H", "3", "0", "M">> => cm_result = 90
       /\ cm_x = <<"P", "T", "4", "5", "M">> => cm_result = 45
       /\ cm_x = <<"P", "T", "2", "H">> => cm_result = 120
       /\ cm_x = <<"P", "T", "1", "H", "5", "M", "3", "0", "S">>
             => cm_result = 65
       /\ cm_result = CalculateMinutes(cm_x)

\* the call on "PT1H5M30S" has returned 65
C11_Witness ==
    /\ pc = "minutes_returned"
    /\ cm_x = <<"P", "T", "1", "H", "5", "M", "3", "0", "S">>
    /\ cm_hours = 1 /\ cm_minutes = 5
    /\ cm_result = 65

\* C12: calculate_minutes returns a non-negative integer for every input,
\* and 0 for every input that is empty or malformed (no "PT" in front,
\* non-numeric or signed components).
C12_NoErrorPath ==
    pc = "minutes_returned" =>
       /\ cm_result >= 0
       /\ ~IsWellFormedDuration(cm_x) => cm_result = 0

\* the part of C12 that holds: well-formed or not, the call returns and a
\* text without a digit gives 0
C12_AlwaysReturns ==
    /\ pc \in {"minutes_hours", "minutes_minutes", "minutes_return",
               "minutes_returned"}
    /\ pc = "minutes_returned" /\ (\A i \in 1..Len(cm_x) : cm_x[i] \notin Digits)
          => cm_result = 0

-----------------------------------------------------------------------------
(* Claims about the metrics of extract_data *)

\* hours between publication and now; negative for a future publication
AgeHours == met_now - met_published.at

\* C13: days_from_publish is the number of whole days since publication and
\* 1 for anything published less than a day ago or in the future, hence at
\* least 1; views_per_lifetime_days is view_count integer-divided by it.
\* Published today with 100 views gives 1 and 100, published 10 days ago
\* with 50 views gives 5.
C13_Metrics ==
    /\ pc \in {"metrics_views", "metrics_done"} =>
         /\ met_days >= 1
         /\ AgeHours < HoursPerDay => met_days = 1
         /\ AgeHours >= HoursPerDay =>
               /\ met_days * HoursPerDay <= AgeHours
               /\ AgeHours < (met_days + 1) * HoursPerDay
    /\ pc = "metrics_done" =>
         /\ met_vpd * met_days <= met_views.val
         /\ met_views.val < (met_vpd + 1) * met_days
         /\ AgeHours = 0 /\ met_views = Num(100)
               => met_days = 1 /\ met_vpd = 100
         /\ AgeHours = 10 * HoursPerDay /\ met_views = Num(50)
               => met_days = 10 /\ met_vpd = 5

\* a record published this very hour with 100 views has got its metrics
C13_Witness ==
    /\ pc = "metrics_done"
    /\ AgeHours = 0
    /\ met_views = Num(100)
    /\ met_days = 1
    /\ met_vpd = 100

\* a record published in the future has got its metrics as well
C13_WitnessFuture ==
    /\ pc = "metrics_done"
    /\ AgeHours < 0
    /\ met_days = 1

-----------------------------------------------------------------------------
(* Claims about the table of extract_data *)

\* no two rows of the table carry the same video
DistinctVideos(table) ==
    \A i, j \in 1..Len(table) :
        i # j => table[i].video_url # table[j].video_url

\* C14: in the table one successful call of extract_data returns, no two
\* rows have the same video identifier, whatever the channel mapping and
\* the platform's answers.
C14_UniqueIds ==
    pc = "extract_returned" => DistinctVideos(ex_result)

\* the part of C14 that holds: the rows fetched for one channel are distinct
C14_UniquePerChannel ==
    \A c \in 1..Len(df_videos_final) : DistinctVideos(df_videos_final[c])

\* the rows of all channels in the order of the mapping, each row tagged
\* with its channel, as fetched by the running call
TaggedRows ==
    Concat([c \in 1..Len(ex_fetched) |-> ProcessRows(channels[c], ex_fetched[c])])

\* the running call of extract_data failed although every request was
\* answered and every category code fetched is known
FailedWithoutCause ==
    /\ pc = "extract_failed"
    /\ \/ channels = <<>>
       \/ /\ Len(ex_fetched) = ex_ch + 1
          /\ \A k \in 1..Len(ex_fetched[ex_ch + 1]) :
                ~UnknownCategory(ex_fetched[ex_ch + 1][k].categoryId)

\* C18: for every channel mapping, channels with an empty upload collection
\* included, extract_data returns one table holding the records of all
\* channels in the order of the mapping, the rows of a channel in the order
\* they were fetched, each row tagged with its channel's name.
C18_AllChannels ==
    /\ pc = "extract_returned" =>
          /\ Len(ex_fetched) = Len(channels)
          /\ ex_result = TaggedRows
    /\ ~FailedWithoutCause

\* the part of C18 that holds: a returned table has the rows of all channels
\* in order and tagged
C18_ReturnedTable ==
    pc = "extract_returned" =>
       /\ Len(ex_fetched) = Len(channels)
       /\ ex_result = TaggedRows
       /\ \A c \in 1..Len(channels) : ex_fetched[c] # <<>>

-----------------------------------------------------------------------------
(* get_video_list: termination *)

\* the response to the k-th request executed
ResponseTo(k) == PlaylistItemsList(lst_pages, lst_requests[k])

\* C15: get_video_list stops exactly when a response carries no continuation
\* token: after each response the loop goes on if and only if the response
\* carries a token (an empty page with a token does not stop it), each
\* follow-up request carries the token of the response before it, and on
\* every finite sequence of pages whose last page has no token the function
\* eventually returns.
C15_Termination ==
    /\ [](lst_requests # <<>> =>
            /\ lst_requests[1] = NoToken
            /\ \A k \in 2..Len(lst_requests) :
                  /\ ResponseTo(k - 1).nextPageToken # NoToken
                  /\ lst_requests[k] = ResponseTo(k - 1).nextPageToken
            /\ next_page = (ResponseTo(Len(lst_requests)).nextPageToken # NoToken)
            /\ next_page => request = ResponseTo(Len(lst_requests)).nextPageToken)
    /\ [](pc = "list_returned" => ~next_page /\ lst_requests # <<>>)
    /\ <>(pc = "list_returned")

\* the function has returned after a page without items that carried a token
C15_Witness ==
    /\ pc = "list_returned"
    /\ Len(lst_pages) = 3
    /\ lst_pages[2].items = <<>>
    /\ lst_pages[2].nextPageToken # NoToken
    /\ lst_pages[3].items # <<>>
    /\ Len(lst_requests) = 3
    /\ video_list = FirstOccurrences(lst_pages[1].items \o lst_pages[3].items)

-----------------------------------------------------------------------------
(* clean_and_fix_tags: termination *)

SerializedLen(list) == Len(Join(CommaSpace, list))

\* after is before with exactly one element taken out
OneRemoved(before, after) ==
    \E i \in 1..Len(before) :
        after = [k \in 1..(Len(before) - 1) |->
                    IF k < i THEN before[k] ELSE before[k + 1]]

\* C16: the removal loop of clean_and_fix_tags terminates for every input
\* and every sequence of random choices: each iteration removes exactly one
\* tag and strictly shortens the serialization, the loop never removes from
\* an empty list, and it ends at or before the list becomes empty.
C16_LoopTerminates ==
    /\ [][pc = "tags_loop" /\ pc' # "tags_returned" =>
            /\ tags # <<>>
            /\ pc' = "tags_loop"
            /\ OneRemoved(tags, tags')
            /\ SerializedLen(tags') < SerializedLen(tags)]_vars
    /\ [](pc # "tags_raised")
    /\ (pc = "tags_loop") ~> (pc = "tags_returned")

\* the loop has removed at least two tags, an empty one among them, and the
\* function has returned
C16_Witness ==
    /\ pc = "tags_returned"
    /\ tg_call = 1
    /\ <<>> \in Range(SplitTags(tg_input))
    /\ <<>> \notin Range(tags)
    /\ Len(tags) <= Len(SplitTags(tg_input)) - 2
    /\ tags # <<>>

-----------------------------------------------------------------------------
(* update_youtube_videos: the delay between calls *)

\* the rows among the first n that carry no marker and are within the limits
CallableRows(n) ==
    {k \in 1..n : ~Contains(df[k].description, IDENTIFIER) /\ ~OverLimit(df[k])}

\* C17: a delay of 0.5 follows every attempted update call, whether the
\* call succeeded or raised, so no two calls are issued without a delay
\* between them; a row skipped for the marker or put in failed_rows by the
\* size check incurs no call.
C17_DelayAfterCall ==
    /\ Len(upd_sleeps) = Len(upd_calls)
    /\ \A k \in 1..Len(upd_sleeps) : upd_sleeps[k] = 500
    /\ {upd_calls[k].row : k \in 1..Len(upd_calls)} = CallableRows(upd_i)
    /\ Len(upd_calls) = Cardinality(CallableRows(upd_i))

\* a call that raised, a call that succeeded and a row without a call, with
\* two delays in all
C17_Witness ==
    /\ pc = "update_returned"
    /\ Len(df) = 3
    /\ Len(upd_calls) = 2
    /\ ~upd_calls[1].ok
    /\ upd_calls[2].ok
    /\ upd_sleeps = <<500, 500>>

-----------------------------------------------------------------------------
(* The main flow: failures of extraction and of text generation *)

\* some video of the platform carries a category code CATEGORY_DICT lacks
PlatformHasUnknownCategory ==
    \E id \in DOMAIN yt_videos :
        DigitsToInt(yt_videos[id].categoryId) \notin CategoryCodes

\* C19: an unknown category code is fatal: if a fetched record carries a
\* code absent from CATEGORY_DICT, extract_data returns no table, and the
\* run issues no text-generation request and no update call.
C19_UnknownCategoryFatal ==
    PlatformHasUnknownCategory =>
       /\ m_pc \in {"extract", "crashed"}
       /\ m_extracted = <<>>
       /\ gen_log = <<>>
       /\ upd_calls = <<>>
       /\ ~m_export

\* the run has ended in the failure of extract_data over a platform with a
\* video of unknown category
C19_Witness ==
    /\ PlatformHasUnknownCategory
    /\ \E id \in DOMAIN yt_videos :
          DigitsToInt(yt_videos[id].categoryId) \in CategoryCodes
    /\ m_pc = "crashed"
    /\ run = 1

\* C19 inside extract_data: a call that fetched a record of unknown category
\* does not return a table
C19_CallFails ==
    pc = "extract_returned" =>
       \A c \in 1..Len(ex_fetched) : \A k \in 1..Len(ex_fetched[c]) :
          DigitsToInt(ex_fetched[c][k].categoryId) \in CategoryCodes

\* C20: the phases of the main flow are strictly ordered: an update call is
\* issued only after the description and the tags have been generated and
\* sanitized for every unprocessed row; if text generation exhausts its
\* retries on any row, the run ends with no update call issued and no
\* failure export written, even for rows whose generation had succeeded.
C20_PhasesOrdered ==
    /\ upd_calls # <<>> =>
          /\ m_pc \in {"update", "done"}
          /\ Len(gen_log) = 2 * Len(m_df)
          /\ \A k \in 1..Len(m_df) :
                /\ m_df[k].new_description.type = "str"
                /\ m_df[k].new_suggested_tags.type = "str"
                /\ Len(m_df[k].new_suggested_tags.val) <= 500
                /\ gen_log[k].column = "new_description"
                /\ gen_log[Len(m_df) + k].column = "new_suggested_tags"
    /\ pc # "main" => m_pc = "update"
    /\ m_pc = "crashed" =>
          /\ pc = "main"
          /\ upd_calls = <<>>
          /\ ~m_export

\* generation has exhausted its retries on the second row after it had
\* succeeded on the first: the run has ended without a call
C20_Witness ==
    /\ m_pc = "crashed"
    /\ Len(m_df) = 2
    /\ Len(gen_log) = 2
    /\ gen_log[1].requests = 1
    /\ gen_log[2].requests = 5
    /\ upd_calls = <<>>
    /\ ~m_export

=============================================================================
